---- MODULE Spec2Model ----
(***************************************************************************)
(* CratesIODumpLoader (src/src/lib.rs): the loader's configuration, the    *)
(* destination directories with their extracted files, the cache of the   *)
(* dump archives and the SQLite database files, with one action per        *)
(* public operation of the loader.                                         *)
(***************************************************************************)
EXTENDS Integers, Sequences, FiniteSets, TLC

VARIABLES
    resource,      \* self.resource
    files,         \* self.files: Vec<PathBuf>
    target_path,   \* self.target_path
    preload,       \* self.preload
    table_schema,  \* self.table_schema: HashMap<String, String>
    cache,         \* creation time of the cached archive of each resource, -1: not cached
    fs,            \* extracted files on disk: path -> [created, content]
    db,            \* database files on disk: directory -> [created, tables]
    now,           \* the filesystem clock
    last           \* the call that led to this state and its outcome

vars == <<resource, files, target_path, preload, table_schema, cache, fs, db, now, last>>

----------------------------------------------------------------------------
(* Bounds of the model *)

MaxClock == 1

TableNames == {"a", "temp_a"}
Schemas == {"s1", "s2"}
DefaultResource == "https://static.crates.io/db-dump.tar.gz"
TestResource == "testdata/test.tar.gz"
Resources == {DefaultResource, TestResource}
Dirs == {"data", "testdata/extracted"}

----------------------------------------------------------------------------
(* Paths.  A PathBuf is [dir, stem, ext]; the requested files are bare     *)
(* file names (dir = "").                                                  *)

Path(d, s, e) == [dir |-> d, stem |-> s, ext |-> e]

\* Path::file_name(): the last component
file_name(p) == [p EXCEPT !.dir = ""]

\* Path::file_stem(): the file name without its extension
file_stem(p) == p.stem

\* Path::join() of a directory and a bare file name
join(d, p) == [p EXCEPT !.dir = d]

\* PathBuf::new(); set_file_name(t); set_extension("csv")
table_to_file(t) == Path("", t, "csv")

tables_to_files(tables) == [i \in 1..Len(tables) |-> table_to_file(tables[i])]

DefaultTables ==
    <<"badges", "categories", "crate_owners", "crates", "crates_categories",
      "crates_keywords", "dependencies", "keywords", "metadata",
      "reserved_crate_names", "teams", "users", "version_authors",
      "version_downloads", "versions">>

MinimalTables == <<"crates", "dependencies", "versions">>

\* Vec::contains
Contains(seq, x) == \E i \in 1..Len(seq) : seq[i] = x

----------------------------------------------------------------------------
(* The archives behind the resources: tar entries in archive order, each   *)
(* with its path inside the archive and the content it unpacks.            *)

Entry(d, s, e, c) == [path |-> Path(d, s, e), content |-> c]

Archive(r) ==
    IF r = DefaultResource
    THEN << Entry("2021-01-01/data", "a", "csv", 1),
            Entry("2021-01-01/data", "b", "csv", 2),
            Entry("2021-01-01/data", "temp_a", "csv", 3),
            Entry("2021-01-01/old", "a", "csv", 4),
            Entry("2021-01-01", "README", "md", 5) >>
    ELSE << Entry("", "test", "csv", 6) >>

InArchive(r, f) == \E i \in 1..Len(Archive(r)) : file_name(Archive(r)[i].path) = f

----------------------------------------------------------------------------
(* The outcome record of a call *)

Call(op, result, extracted, loaded, executed) ==
    [op |-> op, result |-> result, extracted |-> extracted,
     loaded |-> loaded, executed |-> executed]

Init ==
    /\ resource = DefaultResource
    /\ files = tables_to_files(DefaultTables)
    /\ target_path = "data"
    /\ preload = FALSE
    /\ table_schema = << >>
    /\ cache = [r \in Resources |-> -1]
    /\ fs = << >>
    /\ db = << >>
    /\ now = 0
    /\ last = Call("default", "Ok", FALSE, 0, 0)

----------------------------------------------------------------------------
(* Configuration: the fluent setters *)

Config == Call("config", "Ok", FALSE, 0, 0)

\* The table lists handed to tables(); "c" is a table the archives do not hold
TableLists ==
    { << >>, <<"a">>, <<"a", "b">>, <<"a", "temp_a">>, <<"a", "a">>, <<"c", "a">> }

\* The path lists handed to files(): bare names, of any extension
FileLists ==
    { <<Path("", "a", "txt")>>,
      <<Path("", "a", "csv"), Path("", "a", "txt")>> }

SetResource(path) ==
    /\ resource' = path
    /\ last' = Config
    /\ UNCHANGED <<files, target_path, preload, table_schema, cache, fs, db, now>>

SetFiles(fl) ==
    /\ files' = fl
    /\ last' = Config
    /\ UNCHANGED <<resource, target_path, preload, table_schema, cache, fs, db, now>>

SetTables(tables) ==
    /\ files' = tables_to_files(tables)
    /\ last' = Config
    /\ UNCHANGED <<resource, target_path, preload, table_schema, cache, fs, db, now>>

\* HashMap::insert: the new value replaces the one stored under the key
Insert(map, k, v) == [x \in DOMAIN map \cup {k} |-> IF x = k THEN v ELSE map[x]]

SetTableSchema(table, schema) ==
    /\ table_schema' = Insert(table_schema, table, schema)
    /\ last' = Config
    /\ UNCHANGED <<resource, files, target_path, preload, cache, fs, db, now>>

SetTargetPath(path) ==
    /\ target_path' = path
    /\ last' = Config
    /\ UNCHANGED <<resource, files, preload, table_schema, cache, fs, db, now>>

SetPreload(should) ==
    /\ preload' = should
    /\ last' = Config
    /\ UNCHANGED <<resource, files, target_path, table_schema, cache, fs, db, now>>

Minimal ==
    /\ files' = tables_to_files(MinimalTables)
    /\ last' = Config
    /\ UNCHANGED <<resource, target_path, preload, table_schema, cache, fs, db, now>>

----------------------------------------------------------------------------
(* update() *)

Exists(p) == p \in DOMAIN fs

\* Cache::cached_path: the archive is downloaded when it is not cached or when
\* the remote resource changed (refetch); a download is created now.
cached_path(r, refetch) == IF cache[r] = -1 \/ refetch THEN now ELSE cache[r]

\* Entry::unpack: the destination is replaced by a file created now
unpack(disk, dst, content) ==
    [p \in DOMAIN disk \cup {dst} |->
        IF p = dst THEN [created |-> now, content |-> content] ELSE disk[p]]

\* Mutant: every entry is unpacked, requested or not
RECURSIVE ExtractFrom_all(_, _, _)
ExtractFrom_all(disk, entries, i) ==
    IF i > Len(entries) THEN disk
    ELSE LET aname == file_name(entries[i].path)
         IN  ExtractFrom_all(unpack(disk, join(target_path, aname), entries[i].content),
                             entries, i + 1)

\* The loop over archive.entries(), from entry i on
RECURSIVE ExtractFrom(_, _, _)
ExtractFrom(disk, entries, i) ==
    IF i > Len(entries) THEN disk
    ELSE LET aname == file_name(entries[i].path)
         IN  IF Contains(files, aname)
             THEN ExtractFrom(unpack(disk, join(target_path, aname), entries[i].content),
                              entries, i + 1)
             ELSE ExtractFrom(disk, entries, i + 1)

\* The staleness check of update()
UpToDate(first_local_file, archive_created) ==
    Exists(first_local_file) /\ archive_created <= fs[first_local_file].created

Update(refetch) ==
    LET archive_created == cached_path(resource, refetch) IN
    /\ cache' = [cache EXCEPT ![resource] = archive_created]
    /\ IF files = << >>
       THEN \* files.first().unwrap() panics
            /\ fs' = fs
            /\ last' = Call("update", "panic", FALSE, 0, 0)
       ELSE IF UpToDate(join(target_path, Head(files)), archive_created)
       THEN /\ fs' = fs
            /\ last' = Call("update", "Ok", FALSE, 0, 0)
       ELSE /\ fs' = ExtractFrom(fs, Archive(resource), 1)
            /\ last' = Call("update", "Ok", TRUE, 0, 0)
    /\ UNCHANGED <<resource, files, target_path, preload, table_schema, db, now>>

----------------------------------------------------------------------------
(* file_to_query() and load_dump_into(): the SQL batch.  A statement is    *)
(* [op, name, file, schema, src]; schema is << >> for no schema argument   *)
(* and <<s>> for schema='s'.                                               *)

NoPath == Path("", "", "")

DropTable(name) ==
    [op |-> "drop", name |-> name, file |-> NoPath, schema |-> << >>, src |-> ""]

CreateVirtualTable(name, file, schema) ==
    [op |-> "create_virtual", name |-> name, file |-> file, schema |-> schema, src |-> ""]

CreateTableAs(name, src) ==
    [op |-> "create_as", name |-> name, file |-> NoPath, schema |-> << >>, src |-> src]

\* HashMap::get
Get(map, k) == IF k \in DOMAIN map THEN <<map[k]>> ELSE << >>

\* Mutant: the preload flag is not honoured, no native table is created
file_to_query_no_materialize(path) ==
    LET actual_file == join(target_path, path)
        table == file_stem(path)
        vtable == IF preload THEN "temp_" \o table ELSE table
    IN  << DropTable(vtable),
           CreateVirtualTable(vtable, actual_file, Get(table_schema, table)) >>

\* Mutant: the schema is looked up under the virtual table's name
file_to_query_vtable_key(path) ==
    LET actual_file == join(target_path, path)
        table == file_stem(path)
        vtable == IF preload THEN "temp_" \o table ELSE table
        vtab == << DropTable(vtable),
                   CreateVirtualTable(vtable, actual_file, Get(table_schema, vtable)) >>
        ptab == << DropTable(table), CreateTableAs(table, vtable) >>
    IN  IF preload THEN vtab \o ptab ELSE vtab

file_to_query(path) ==
    LET actual_file == join(target_path, path)
        table == file_stem(path)
        vtable == IF preload THEN "temp_" \o table ELSE table
        vtab == << DropTable(vtable),
                   CreateVirtualTable(vtable, actual_file, Get(table_schema, table)) >>
        ptab == << DropTable(table), CreateTableAs(table, vtable) >>
    IN  IF preload THEN vtab \o ptab ELSE vtab

\* files.iter().map(file_to_query).fold(...): the blocks in list order, from i on
RECURSIVE SchemaFrom(_)
SchemaFrom(i) ==
    IF i > Len(files) THEN << >> ELSE file_to_query(files[i]) \o SchemaFrom(i + 1)

\* A table of a database: a csv virtual table reads its file, a native table
\* holds the rows it was created with.
VirtualTable(file, schema) ==
    [kind |-> "virtual", file |-> file, schema |-> schema, rows |-> 0]

NativeTable(rows) ==
    [kind |-> "native", file |-> NoPath, schema |-> << >>, rows |-> rows]

Rows(t) == IF t.kind = "virtual" THEN fs[t.file].content ELSE t.rows

\* The statement is rejected by the engine: the csv module opens the file to
\* read its header, CREATE needs a free name, SELECT needs its source.
StmtFails(tables, s) ==
    CASE s.op = "drop" -> FALSE
      [] s.op = "create_virtual" -> s.name \in DOMAIN tables \/ ~Exists(s.file)
      [] OTHER -> s.name \in DOMAIN tables \/ s.src \notin DOMAIN tables

StmtApply(tables, s) ==
    CASE s.op = "drop" -> [n \in DOMAIN tables \ {s.name} |-> tables[n]]
      [] s.op = "create_virtual" ->
            [n \in DOMAIN tables \cup {s.name} |->
                IF n = s.name THEN VirtualTable(s.file, s.schema) ELSE tables[n]]
      [] OTHER ->
            [n \in DOMAIN tables \cup {s.name} |->
                IF n = s.name THEN NativeTable(Rows(tables[s.src])) ELSE tables[n]]

\* Mutant: a failing statement is skipped and the batch goes on
RECURSIVE execute_batch_continue(_, _, _)
execute_batch_continue(tables, stmts, i) ==
    IF i > Len(stmts) THEN [tables |-> tables, executed |-> Len(stmts), ok |-> TRUE]
    ELSE IF StmtFails(tables, stmts[i])
    THEN [execute_batch_continue(tables, stmts, i + 1) EXCEPT !.executed = i - 1, !.ok = FALSE]
    ELSE execute_batch_continue(StmtApply(tables, stmts[i]), stmts, i + 1)

\* Connection::execute_batch: statement after statement, stopping at the
\* first that fails; nothing is rolled back.
RECURSIVE execute_batch(_, _, _)
execute_batch(tables, stmts, i) ==
    IF i > Len(stmts) THEN [tables |-> tables, executed |-> Len(stmts), ok |-> TRUE]
    ELSE IF StmtFails(tables, stmts[i])
    THEN [tables |-> tables, executed |-> i - 1, ok |-> FALSE]
    ELSE execute_batch(StmtApply(tables, stmts[i]), stmts, i + 1)

load_dump_into(tables) == execute_batch(tables, SchemaFrom(1), 1)

sqlite_path == Path(target_path, "db", "sqlite")

LoadDumpInto ==
    /\ sqlite_path \in DOMAIN db
    /\ LET r == load_dump_into(db[sqlite_path].tables) IN
        /\ db' = [db EXCEPT ![sqlite_path].tables = r.tables]
        /\ last' = Call("load_dump_into", IF r.ok THEN "Ok" ELSE "RusqliteError",
                        FALSE, 1, r.executed)
    /\ UNCHANGED <<resource, files, target_path, preload, table_schema, cache, fs, now>>

----------------------------------------------------------------------------
(* open_db() *)

\* Mutant: a missing file reads as created at the epoch instead of failing
MetadataCreated_epoch(p) == IF Exists(p) THEN <<fs[p].created>> ELSE <<0>>

\* fs::metadata(p)?.created()?: << >> stands for the io::Error of a missing file
MetadataCreated(p) == IF Exists(p) THEN <<fs[p].created>> ELSE << >>

\* Connection::open on a missing file creates an empty database, then
\* load_dump_into runs against it
OpenAndLoad(disk) ==
    LET r == load_dump_into(<< >>) IN
    /\ db' = [p \in DOMAIN disk \cup {sqlite_path} |->
                IF p = sqlite_path THEN [created |-> now, tables |-> r.tables]
                ELSE disk[p]]
    /\ last' = Call("open_db", IF r.ok THEN "Ok" ELSE "RusqliteError",
                    FALSE, 1, r.executed)

OpenAsIs ==
    /\ db' = db
    /\ last' = Call("open_db", "Ok", FALSE, 0, 0)

OpenDb ==
    /\ IF files = << >>
       THEN \* files.first().unwrap() panics
            /\ db' = db
            /\ last' = Call("open_db", "panic", FALSE, 0, 0)
       ELSE LET path == sqlite_path
                first_local_file == join(target_path, Head(files))
            IN  IF path \notin DOMAIN db
                THEN OpenAndLoad(db)
                ELSE IF ~Exists(first_local_file)
                THEN \* && path.exists() && path.metadata()?.created()? <= ...
                     LET sentinel == MetadataCreated(first_local_file) IN
                     IF sentinel = << >>
                     THEN /\ db' = db
                          /\ last' = Call("open_db", "IOError", FALSE, 0, 0)
                     ELSE IF db[path].created <= sentinel[1]
                     THEN \* remove_file(&path), then open and load
                          OpenAndLoad([p \in DOMAIN db \ {path} |-> db[p]])
                     ELSE OpenAsIs
                ELSE OpenAsIs
    /\ UNCHANGED <<resource, files, target_path, preload, table_schema, cache, fs, now>>

----------------------------------------------------------------------------

\* Time passes on the filesystem clock
Tick ==
    /\ now < MaxClock
    /\ now' = now + 1
    /\ UNCHANGED <<resource, files, target_path, preload, table_schema, cache, fs, db, last>>

Next ==
    \/ \E tables \in TableLists : SetTables(tables)
    \/ \E should \in BOOLEAN : SetPreload(should)
    \/ Minimal
    \/ \E refetch \in BOOLEAN : Update(refetch)
    \/ OpenDb
    \/ LoadDumpInto
    \/ Tick

\* The loader run against the default resource and destination
Spec == Init /\ [][Next]_vars

\* The configuration surface alone
NextConfig ==
    \/ \E path \in Resources : SetResource(path)
    \/ \E fl \in FileLists : SetFiles(fl)
    \/ \E tables \in TableLists : SetTables(tables)
    \/ \E table \in TableNames, schema \in Schemas : SetTableSchema(table, schema)
    \/ \E path \in Dirs : SetTargetPath(path)
    \/ \E should \in BOOLEAN : SetPreload(should)
    \/ Minimal

SpecConfig == Init /\ [][NextConfig]_vars

----------------------------------------------------------------------------
(* Steps and notions the properties speak of *)

\* The steps of the three operations (the test of last' comes first only to
\* spare the evaluation of the action on the steps of other operations)
UpdateStep == last'.op = "update" /\ \E refetch \in BOOLEAN : Update(refetch)

OpenDbStep == last'.op = "open_db" /\ OpenDb

LoadDumpIntoStep == last'.op = "load_dump_into" /\ LoadDumpInto

Sentinel == join(target_path, Head(files))

DbExists == sqlite_path \in DOMAIN db

Max(S) == CHOOSE x \in S : \A y \in S : y <= x

\* The content of the entry of base name f that comes last in the archive
LastContent(r, f) ==
    Archive(r)[Max({i \in 1..Len(Archive(r)) : file_name(Archive(r)[i].path) = f})].content

\* Every path of a destination directory the model can name
Stems == {"a", "b", "c", "temp_a", "README", "test"} \cup
         {DefaultTables[i] : i \in 1..Len(DefaultTables)}
DestPaths == {Path(d, st, e) : d \in Dirs, st \in Stems, e \in {"csv", "txt", "md"}}

----------------------------------------------------------------------------
\* C1: whenever update() returns Ok, every requested file the archive holds an
\* entry for exists in the destination and was created no earlier than the
\* cached archive.
C1_UpdateOkAllRequestedFresh ==
    (last.op = "update" /\ last.result = "Ok") =>
        \A i \in 1..Len(files) :
            InArchive(resource, files[i]) =>
                /\ Exists(join(target_path, files[i]))
                /\ fs[join(target_path, files[i])].created >= cache[resource]

\* C2: a second update() right after a successful one, on the same config and
\* with the cached archive unchanged, extracts nothing: no file is written and
\* every creation time stays.
C2_SecondUpdateIsNoOp ==
    [][ (last.op = "update" /\ last.result = "Ok" /\ files # << >>
            /\ UpdateStep /\ cache' = cache)
        => (fs' = fs /\ ~last'.extracted) ]_vars

\* C3: open_db() without a database file creates it and runs the load batch
\* exactly once; with a database file created later than the sentinel file it
\* opens the database as it is and runs no statement.
C3_OpenDbLoadDecision ==
    [][ OpenDbStep =>
        /\ ~DbExists => (sqlite_path \in DOMAIN db' /\ last'.loaded = 1)
        /\ (DbExists /\ files # << >> /\ Exists(Sentinel)
                /\ db[sqlite_path].created > fs[Sentinel].created)
            => (db' = db /\ last'.loaded = 0 /\ last'.result = "Ok") ]_vars

\* The load decision of C3 for the calls that have a first requested entry
OpenDbLoadDecisionNonEmpty ==
    [][ (OpenDbStep /\ files # << >>) =>
        /\ ~DbExists => (sqlite_path \in DOMAIN db' /\ last'.loaded = 1
                          /\ db'[sqlite_path].created = now)
        /\ (DbExists /\ Exists(Sentinel)
                /\ db[sqlite_path].created > fs[Sentinel].created)
            => (db' = db /\ last'.loaded = 0 /\ last'.result = "Ok") ]_vars

\* C4: open_db() with a database file and no sentinel file deletes the
\* database, creates a new one at the same path and runs the load batch
\* against it.
C4_OpenDbRebuilds ==
    [][ (OpenDbStep /\ files # << >> /\ DbExists /\ ~Exists(Sentinel)) =>
        /\ last'.loaded = 1
        /\ last'.result # "IOError"
        /\ sqlite_path \in DOMAIN db'
        /\ db'[sqlite_path].created = now ]_vars

----------------------------------------------------------------------------
(* C5: the tables a load from an empty database leaves *)

\* A load batch runs against a database without tables
LoadFromEmpty ==
    \/ files # << >> /\ ~DbExists /\ OpenDbStep
    \/ DbExists /\ db[sqlite_path].tables = << >> /\ LoadDumpIntoStep

StagingName(i) == IF preload THEN "temp_" \o file_stem(files[i]) ELSE file_stem(files[i])

\* Entry i has its table, or its pair of tables, in the database t
EntryLoaded(t, i) ==
    LET file == join(target_path, files[i])
        table == file_stem(files[i])
    IN  /\ StagingName(i) \in DOMAIN t
        /\ t[StagingName(i)] = VirtualTable(file, Get(table_schema, table))
        /\ preload =>
            /\ table \in DOMAIN t
            /\ t[table] = NativeTable(fs[file].content)
            /\ t[table].rows = Rows(t[StagingName(i)])

\* One table per entry, or one pair per entry, and no other table
OnePerEntry(t) ==
    /\ \A i \in 1..Len(files) : EntryLoaded(t, i)
    /\ Cardinality(DOMAIN t) = IF preload THEN 2 * Len(files) ELSE Len(files)

\* The names are pairwise distinct and, with preload, no table is named as the
\* staging table of another
NoNameClash ==
    /\ \A i, j \in 1..Len(files) : i # j => file_stem(files[i]) # file_stem(files[j])
    /\ preload =>
        \A i, j \in 1..Len(files) : file_stem(files[i]) # "temp_" \o file_stem(files[j])

----------------------------------------------------------------------------
(* C6: the schema argument of the generated statement *)

SchemaArg(path) == file_to_query(path)[2].schema

QueryPaths == {Path("", st, e) : st \in TableNames \cup {"crates"}, e \in {"csv", "txt"}}

RegisterStep == \E t \in TableNames, s \in Schemas : SetTableSchema(t, s)

\* C6: the creation statement of a table carries the schema most recently
\* registered under the table's base name, verbatim, and none when none was
\* registered; a registration changes no other table's statement.
C6_SchemaOverride ==
    /\ \A p \in QueryPaths : SchemaArg(p) = << >>
    /\ [][ /\ \A t \in TableNames, s \in Schemas :
                SetTableSchema(t, s) =>
                    \A p \in QueryPaths :
                        SchemaArg(p)' = IF file_stem(p) = t THEN <<s>> ELSE SchemaArg(p)
           /\ ~RegisterStep => \A p \in QueryPaths : SchemaArg(p)' = SchemaArg(p) ]_vars

C6_Witness ==
    /\ preload
    /\ Contains(files, table_to_file("a"))
    /\ SchemaArg(table_to_file("a")) = <<"s2">>
    /\ SchemaArg(table_to_file("temp_a")) = <<"s1">>
    /\ SchemaArg(Path("", "crates", "csv")) = << >>

----------------------------------------------------------------------------
(* C7: the batch of load_dump_into *)

BlockLen == IF preload THEN 4 ELSE 2
BatchLen == BlockLen * Len(files)

\* Statement k of the batch: the blocks in list order, in each block the drop
\* and the creation of the virtual table, then those of the native table
BatchStmt(k) ==
    LET i == ((k - 1) \div BlockLen) + 1
        table == file_stem(files[i])
        pos == (k - 1) % BlockLen
    IN  CASE pos = 0 -> DropTable(StagingName(i))
          [] pos = 1 -> CreateVirtualTable(StagingName(i), join(target_path, files[i]),
                                           Get(table_schema, table))
          [] pos = 2 -> DropTable(table)
          [] OTHER -> CreateTableAs(table, StagingName(i))

RECURSIVE After(_, _)
After(t, k) == IF k = 0 THEN t ELSE StmtApply(After(t, k - 1), BatchStmt(k))

\* A load batch runs against the tables t
LoadRuns(t) ==
    \/ files # << >> /\ ~DbExists /\ t = << >> /\ OpenDbStep
    \/ DbExists /\ t = db[sqlite_path].tables /\ LoadDumpIntoStep

\* C7: the batch runs in list order and stops at the first failing statement:
\* the statements before it stay applied, none after it runs, and the call
\* returns RusqliteError exactly then.
C7_BatchStopsAtFailure ==
    [][ \A t \in {<< >>} \cup {db[q].tables : q \in DOMAIN db} :
          LoadRuns(t) =>
            \E k \in 0..BatchLen :
                /\ last'.executed = k
                /\ last'.loaded = 1
                /\ \A j \in 1..k : ~StmtFails(After(t, j - 1), BatchStmt(j))
                /\ db'[sqlite_path].tables = After(t, k)
                /\ IF k = BatchLen
                   THEN last'.result = "Ok"
                   ELSE /\ StmtFails(After(t, k), BatchStmt(k + 1))
                        /\ last'.result = "RusqliteError" ]_vars

C7_Witness ==
    /\ last.op = "load_dump_into" /\ last.result = "RusqliteError"
    /\ last.executed >= 2 /\ last.executed < BatchLen
    /\ StagingName(1) \in DOMAIN db[sqlite_path].tables

----------------------------------------------------------------------------
\* C8: an update() that extracts unpacks exactly the entries whose base name is
\* requested, each to <destination>/<base name> as a new file, the last entry
\* of a base name giving the content; every other file stays as it was.
C8_SelectiveExtraction ==
    [][ (last'.extracted /\ UpdateStep) =>
          \A p \in DestPaths \cup DOMAIN fs \cup DOMAIN fs' :
            IF /\ p.dir = target_path
               /\ Contains(files, file_name(p))
               /\ InArchive(resource, file_name(p))
            THEN /\ p \in DOMAIN fs'
                 /\ fs'[p] = [created |-> now,
                              content |-> LastContent(resource, file_name(p))]
            ELSE /\ (p \in DOMAIN fs') = (p \in DOMAIN fs)
                 /\ p \in DOMAIN fs => fs'[p] = fs[p] ]_vars

C8_Witness ==
    /\ last.op = "update" /\ last.extracted
    /\ files = tables_to_files(<<"a", "temp_a">>)
    /\ Exists(Path(target_path, "a", "csv"))
    /\ fs[Path(target_path, "a", "csv")].content = 4
    /\ fs[Path(target_path, "a", "csv")].created = 1
    /\ Exists(Path(target_path, "temp_a", "csv"))
    /\ ~Exists(Path(target_path, "b", "csv"))
    /\ ~Exists(Path(target_path, "README", "md"))

----------------------------------------------------------------------------
\* C9: the list of requested tables is never empty, so update() and open_db()
\* never abort for lack of a first entry.
C9_FilesNonEmpty == files # << >> /\ last.result # "panic"

----------------------------------------------------------------------------
====
